---- MODULE Spec2Model ----
(***************************************************************************)
(* A model of the analytics engine of hh-analyzer-bot (src/analytics.py),  *)
(* of the listing source that feeds it (src/hh_api.py) and of the message  *)
(* handlers of src/bot.py: process_city, which calls both, and btn_pdf and *)
(* btn_stats, which read what it has stored.                               *)
(*                                                                         *)
(* Python values are tagged records: None, PyStr(s), PyInt(n), PyDict(d),  *)
(* where                                                                   *)
(* d is a function from the keys that are present to values.  A key that   *)
(* is missing from a dict is simply not in DOMAIN d, so dict.get(k) and    *)
(* dict.get(k, default) can be told apart from a key holding None.         *)
(*                                                                         *)
(* Strings here are ASCII, so the Russian labels of the source are         *)
(* transliterated: "Ne ukazano" is the source's label for "unspecified",   *)
(* "Bez opyta" / "1-3 goda" / "3-6 let" / "6+ let" are the experience      *)
(* tiers, "do 100k" ... "400k+" are the histogram buckets.                 *)
(*                                                                         *)
(* Salary samples hold floats such as 99999.5 in the source.  The model    *)
(* keeps every sample value doubled (an integer number of halves), and     *)
(* int(x) truncates the exact quotient.                                    *)
(***************************************************************************)
EXTENDS Integers, Sequences, FiniteSets, TLC

VARIABLES
    vacancies,   \* the list handed to analyze_vacancies
    stats,       \* what the latest call returned (NoCall before the first)
    runs,        \* number of calls of analyze_vacancies made so far
    cache,       \* hh_api._cache: cache key -> the stored response and its time
    now,         \* datetime.utcnow(), in minutes
    pc,          \* where process_city is: "idle", "loop" (inside
                 \* get_all_vacancies) or "returned" (get_all_vacancies is back)
    calls,       \* number of messages process_city has handled
    query,       \* text argument of the running get_all_vacancies
    area,        \* area argument of the running get_all_vacancies
    page,        \* its local page
    all_vacancies, \* its local all_vacancies
    requests,    \* the pages it has sent an HTTP request for, in order
    result,      \* its local result: what the latest search_vacancies returned
    caught,      \* the failure its except branch has caught, "none" if none
    answer,      \* what process_city answered to the latest message
    results_cache, \* bot.results_cache: user id -> the stored analysis
    tasks,       \* the handlers that are suspended at an await, with their locals
    sent         \* the latest message the bot has sent

analysis_vars == <<vacancies, stats, runs>>
source_vars ==
    <<cache, now, pc, calls, query, area, page, all_vacancies, requests,
      result, caught, answer, results_cache>>
handler_vars == <<tasks, sent>>
vars == <<analysis_vars, source_vars, handler_vars>>

-----------------------------------------------------------------------------
(* Python values *)

None == [t |-> "None"]
PyStr(s) == [t |-> "str", s |-> s]
PyInt(n) == [t |-> "int", n |-> n]
PyDict(d) == [t |-> "dict", d |-> d]
EmptyDict == [t |-> "dict", d |-> <<>>]

\* bool(v): None, "", 0 and {} are falsy
Truthy(v) ==
    CASE v.t = "None" -> FALSE
      [] v.t = "str" -> v.s # ""
      [] v.t = "int" -> v.n # 0
      [] v.t = "dict" -> DOMAIN v.d # {}
      [] OTHER -> TRUE

isinstance_dict(v) == v.t = "dict"
isinstance_str(v) == v.t = "str"

\* d.get(k) for a dict d (a function from present keys to values)
Get(d, k) == IF k \in DOMAIN d THEN d[k] ELSE None
\* d.get(k, default)
GetOr(d, k, default) == IF k \in DOMAIN d THEN d[k] ELSE default

NeUkazano == PyStr("Ne ukazano")

\* TLC evaluates an argument when it is first used.  A loop that tests
\* Evaluated(acc) in every round has its accumulator computed round by
\* round, as the source does, instead of all at once after the last round.
Evaluated(x) == x = x

-----------------------------------------------------------------------------
(* collections.Counter: the keys in insertion order, each with its count *)

EmptyCounter == <<>>

CounterHas(c, key) == \E i \in 1..Len(c) : c[i].key = key

CounterAdd(c, key, k) ==
    IF CounterHas(c, key)
    THEN [i \in 1..Len(c) |-> IF c[i].key = key
                              THEN [key |-> key, n |-> c[i].n + k]
                              ELSE c[i]]
    ELSE Append(c, [key |-> key, n |-> k])

CounterGet(c, key) ==
    IF CounterHas(c, key)
    THEN LET i == CHOOSE j \in 1..Len(c) : c[j].key = key IN c[i].n
    ELSE 0

\* a variant that puts an item in front of the items of its own count
InsertPosBeforeTies(ranked, n) ==
    Cardinality({j \in 1..Len(ranked) : ranked[j].n > n}) + 1

\* where a later item of count n goes into a list already ranked:
\* behind every item whose count is at least n
InsertPos(ranked, n) ==
    Cardinality({j \in 1..Len(ranked) : ranked[j].n >= n}) + 1

InsertRanked(ranked, item) ==
    LET p == InsertPos(ranked, item.n)
    IN  SubSeq(ranked, 1, p - 1) \o <<item>> \o SubSeq(ranked, p, Len(ranked))

RECURSIVE RankFrom(_, _, _)
RankFrom(c, i, ranked) ==
    IF Evaluated(ranked) /\ i > Len(c) THEN ranked
    ELSE RankFrom(c, i + 1, InsertRanked(ranked, c[i]))

\* Counter.most_common(): sorted(items, key=count, reverse=True), a stable sort
most_common(c) == RankFrom(c, 1, <<>>)

\* Counter.most_common(n): heapq.nlargest(n, items, key=count), which is
\* sorted(items, key=count, reverse=True)[:n]
most_common_n(c, n) ==
    LET r == most_common(c)
    IN  SubSeq(r, 1, IF Len(r) < n THEN Len(r) ELSE n)

-----------------------------------------------------------------------------
(* numbers *)

\* a variant that rounds to the nearest integer, halves upward
RoundHalfUp(num, den) == (2 * num + den) \div (2 * den)

\* int(num / den) for den > 0: truncation toward zero
Trunc(num, den) == IF num >= 0 THEN num \div den ELSE -((-num) \div den)

RECURSIVE SumSeq(_)
SumSeq(s) == IF s = <<>> THEN 0 ELSE Head(s) + SumSeq(Tail(s))

SeqMin(s) == CHOOSE x \in {s[i] : i \in 1..Len(s)} :
                 \A j \in 1..Len(s) : x <= s[j]
SeqMax(s) == CHOOSE x \in {s[i] : i \in 1..Len(s)} :
                 \A j \in 1..Len(s) : x >= s[j]

RECURSIVE SortAsc(_)
SortAsc(s) ==
    IF s = <<>> THEN <<>>
    ELSE LET m == SeqMin(s)
             i == CHOOSE j \in 1..Len(s) : s[j] = m
         IN  <<m>> \o SortAsc(SubSeq(s, 1, i - 1) \o SubSeq(s, i + 1, Len(s)))

\* int(np.mean(xs)) of a sample kept doubled
IntMean2(xs2) == Trunc(SumSeq(xs2), 2 * Len(xs2))

\* int(np.median(xs)) of a sample kept doubled: the middle value, or the
\* mean of the two middle values
IntMedian2(xs2) ==
    LET srt == SortAsc(xs2)
        n == Len(srt)
    IN  IF n % 2 = 1
        THEN Trunc(srt[(n + 1) \div 2], 2)
        ELSE Trunc(srt[n \div 2] + srt[n \div 2 + 1], 4)

-----------------------------------------------------------------------------
(* results and exceptions *)

\* a call that ended in an exception instead of returning
Raised(e) == [raised |-> e]
IsRaised(r) == "raised" \in DOMAIN r

NoCall == [nocall |-> TRUE]

IntMean(xs) == Trunc(SumSeq(xs), Len(xs))

-----------------------------------------------------------------------------
(* salary: conversion and the representative value *)

UsdRate == 90
EurRate == 100

\* "from_val * rate if from_val else None"
TimesRate(val, rate) == IF Truthy(val) THEN PyInt(val.n * rate) ELSE None

\* a variant that knows one foreign currency only
ConvertBoundUsdOnly(val, currency) ==
    IF currency = PyStr("USD") THEN TimesRate(val, UsdRate) ELSE val

\* the if/elif on currency: USD and EUR bounds are multiplied, any other
\* currency leaves the bound as it was read
ConvertBound(val, currency) ==
    IF currency = PyStr("USD") THEN TimesRate(val, UsdRate)
    ELSE IF currency = PyStr("EUR") THEN TimesRate(val, EurRate)
    ELSE val

\* a variant that appends each bound of a range as a value of its own
Representative2BothBounds(from_val, to_val) ==
    IF Truthy(from_val) /\ Truthy(to_val) THEN <<2 * from_val.n, 2 * to_val.n>>
    ELSE IF Truthy(from_val) THEN <<2 * from_val.n>>
    ELSE IF Truthy(to_val) THEN <<2 * to_val.n>>
    ELSE <<>>

\* the if/elif chain "from_val and to_val / from_val / to_val" on converted
\* bounds: the value appended to the sample (doubled), or <<>> when the
\* listing adds nothing
Representative2(from_val, to_val) ==
    IF Truthy(from_val) /\ Truthy(to_val) THEN <<from_val.n + to_val.n>>
    ELSE IF Truthy(from_val) THEN <<2 * from_val.n>>
    ELSE IF Truthy(to_val) THEN <<2 * to_val.n>>
    ELSE <<>>

\* get_salary_distribution: the bucket of one sample value (doubled)
BucketLabels ==
    <<"do 100k", "100-150k", "150-200k", "200-250k", "250-300k", "300-400k", "400k+">>

\* a variant whose ranges leave out the edges themselves
BucketOfOpenRanges(s2) ==
    IF s2 < 2 * 100000 THEN "do 100k"
    ELSE IF s2 > 2 * 100000 /\ s2 < 2 * 150000 THEN "100-150k"
    ELSE IF s2 > 2 * 150000 /\ s2 < 2 * 200000 THEN "150-200k"
    ELSE IF s2 > 2 * 200000 /\ s2 < 2 * 250000 THEN "200-250k"
    ELSE IF s2 > 2 * 250000 /\ s2 < 2 * 300000 THEN "250-300k"
    ELSE IF s2 > 2 * 300000 /\ s2 < 2 * 400000 THEN "300-400k"
    ELSE IF s2 > 2 * 400000 THEN "400k+"
    ELSE "no bucket"

\* a variant that keeps a value equal to an edge in the bucket below it
BucketOfClosedEdges(s2) ==
    IF s2 <= 2 * 100000 THEN "do 100k"
    ELSE IF s2 <= 2 * 150000 THEN "100-150k"
    ELSE IF s2 <= 2 * 200000 THEN "150-200k"
    ELSE IF s2 <= 2 * 250000 THEN "200-250k"
    ELSE IF s2 <= 2 * 300000 THEN "250-300k"
    ELSE IF s2 <= 2 * 400000 THEN "300-400k"
    ELSE "400k+"

BucketOf(s2) ==
    IF s2 < 2 * 100000 THEN "do 100k"
    ELSE IF s2 < 2 * 150000 THEN "100-150k"
    ELSE IF s2 < 2 * 200000 THEN "150-200k"
    ELSE IF s2 < 2 * 250000 THEN "200-250k"
    ELSE IF s2 < 2 * 300000 THEN "250-300k"
    ELSE IF s2 < 2 * 400000 THEN "300-400k"
    ELSE "400k+"

RECURSIVE DistFrom(_, _, _)
DistFrom(salaries2, i, dist) ==
    IF Evaluated(dist) /\ i > Len(salaries2) THEN dist
    ELSE LET b == BucketOf(salaries2[i])
         IN  DistFrom(salaries2, i + 1, [dist EXCEPT ![b] = @ + 1])

get_salary_distribution(salaries2) ==
    DistFrom(salaries2, 1,
             [b \in {BucketLabels[k] : k \in 1..Len(BucketLabels)} |-> 0])

-----------------------------------------------------------------------------
(* analyze_salaries *)

SalaryAcc0 ==
    [salaries |-> <<>>, salary_from_list |-> <<>>, salary_to_list |-> <<>>,
     currency_stats |-> EmptyCounter]

\* the body of the loop for one listing whose salary is falsy or a dict
SalaryStep(acc, v) ==
    LET salary == Get(v, "salary")
    IN  IF ~Truthy(salary) THEN acc
        ELSE
        LET currency == GetOr(salary.d, "currency", PyStr("RUR"))
            from_val == ConvertBound(Get(salary.d, "from"), currency)
            to_val == ConvertBound(Get(salary.d, "to"), currency)
        IN  [salaries |-> acc.salaries \o Representative2(from_val, to_val),
             salary_from_list |->
                 IF Truthy(from_val) THEN Append(acc.salary_from_list, from_val.n)
                 ELSE acc.salary_from_list,
             salary_to_list |->
                 IF Truthy(to_val) THEN Append(acc.salary_to_list, to_val.n)
                 ELSE acc.salary_to_list,
             currency_stats |-> CounterAdd(acc.currency_stats, currency, 1)]

RECURSIVE SalaryLoop(_, _, _)
SalaryLoop(vs, i, acc) ==
    IF Evaluated(acc) /\ i > Len(vs) THEN acc
    ELSE SalaryLoop(vs, i + 1, SalaryStep(acc, vs[i]))

\* "if salary:" is followed by salary.get(...) with no isinstance check: a
\* truthy salary that is no dict has no get
SalaryHasNoGet(v) ==
    LET salary == Get(v, "salary")
    IN  Truthy(salary) /\ ~isinstance_dict(salary)

TopCurrencies == 5

analyze_salaries(vs) ==
    IF \E i \in 1..Len(vs) : SalaryHasNoGet(vs[i])
    THEN Raised("AttributeError")
    ELSE
    LET acc == SalaryLoop(vs, 1, SalaryAcc0)
    IN  IF acc.salaries = <<>>
        THEN [available |-> FALSE, message |-> "Zarplaty ne ukazany"]
        ELSE [available |-> TRUE,
              count |-> Len(acc.salaries),
              min |-> Trunc(SeqMin(acc.salaries), 2),
              max |-> Trunc(SeqMax(acc.salaries), 2),
              avg |-> IntMean2(acc.salaries),
              median |-> IntMedian2(acc.salaries),
              from_avg |-> IF acc.salary_from_list # <<>>
                           THEN PyInt(IntMean(acc.salary_from_list)) ELSE None,
              to_avg |-> IF acc.salary_to_list # <<>>
                         THEN PyInt(IntMean(acc.salary_to_list)) ELSE None,
              distribution |-> get_salary_distribution(acc.salaries),
              currencies |-> most_common_n(acc.currency_stats, TopCurrencies)]

-----------------------------------------------------------------------------
(* experience tiers *)

BezOpyta == PyStr("Bez opyta")
Goda1_3 == PyStr("1-3 goda")
Let3_6 == PyStr("3-6 let")
Let6Plus == PyStr("6+ let")

TierLabels == <<BezOpyta, Goda1_3, Let3_6, Let6Plus, NeUkazano>>
TierSet == {TierLabels[k] : k \in 1..Len(TierLabels)}

\* exp_map.get(code, default)
exp_map_get(code, default) ==
    CASE code = PyStr("noExperience") -> BezOpyta
      [] code = PyStr("between1And3") -> Goda1_3
      [] code = PyStr("between3And6") -> Let3_6
      [] code = PyStr("moreThan6") -> Let6Plus
      [] OTHER -> default

\* the if/elif/else that reads the experience code of a listing
ExperienceCode(v) ==
    LET exp_data == Get(v, "experience")
    IN  IF Truthy(exp_data) /\ isinstance_dict(exp_data)
        THEN GetOr(exp_data.d, "id", NeUkazano)
        ELSE IF Truthy(exp_data) /\ isinstance_str(exp_data) THEN exp_data
        ELSE NeUkazano

-----------------------------------------------------------------------------
(* analyze_salary_by_experience *)

\* a variant that keeps the salaries of the four known tiers only
TierSampleKnownTiersOnly(v) ==
    LET exp_name == exp_map_get(ExperienceCode(v), NeUkazano)
        salary == Get(v, "salary")
    IN  IF Truthy(salary) /\ isinstance_dict(salary) /\ exp_name # NeUkazano
        THEN LET currency == GetOr(salary.d, "currency", PyStr("RUR"))
                 from_val == ConvertBound(Get(salary.d, "from"), currency)
                 to_val == ConvertBound(Get(salary.d, "to"), currency)
             IN  [tier |-> exp_name, add |-> Representative2(from_val, to_val)]
        ELSE [tier |-> exp_name, add |-> <<>>]

\* the body of the loop for one listing: the tier and what is appended to it
TierSample(v) ==
    LET exp_name == exp_map_get(ExperienceCode(v), NeUkazano)
        salary == Get(v, "salary")
    IN  IF Truthy(salary) /\ isinstance_dict(salary)
        THEN LET currency == GetOr(salary.d, "currency", PyStr("RUR"))
                 from_val == ConvertBound(Get(salary.d, "from"), currency)
                 to_val == ConvertBound(Get(salary.d, "to"), currency)
             IN  [tier |-> exp_name, add |-> Representative2(from_val, to_val)]
        ELSE [tier |-> exp_name, add |-> <<>>]

RECURSIVE ByExpLoop(_, _, _)
ByExpLoop(vs, i, salary_by_exp) ==
    IF Evaluated(salary_by_exp) /\ i > Len(vs) THEN salary_by_exp
    ELSE LET ts == TierSample(vs[i])
         IN  ByExpLoop(vs, i + 1,
                       [salary_by_exp EXCEPT ![ts.tier] = @ \o ts.add])

\* a variant that reports every tier, an empty one with zeros
analyze_salary_by_experience_all_tiers(vs) ==
    LET salary_by_exp == ByExpLoop(vs, 1, [tier \in TierSet |-> <<>>])
    IN  [tier \in TierSet |->
            IF salary_by_exp[tier] = <<>>
            THEN [count |-> 0, min |-> 0, max |-> 0, avg |-> 0, median |-> 0]
            ELSE [count |-> Len(salary_by_exp[tier]),
                  min |-> Trunc(SeqMin(salary_by_exp[tier]), 2),
                  max |-> Trunc(SeqMax(salary_by_exp[tier]), 2),
                  avg |-> IntMean2(salary_by_exp[tier]),
                  median |-> IntMedian2(salary_by_exp[tier])]]

analyze_salary_by_experience(vs) ==
    LET salary_by_exp == ByExpLoop(vs, 1, [tier \in TierSet |-> <<>>])
        present == {tier \in TierSet : salary_by_exp[tier] # <<>>}
    IN  [tier \in present |->
            [count |-> Len(salary_by_exp[tier]),
             min |-> Trunc(SeqMin(salary_by_exp[tier]), 2),
             max |-> Trunc(SeqMax(salary_by_exp[tier]), 2),
             avg |-> IntMean2(salary_by_exp[tier]),
             median |-> IntMedian2(salary_by_exp[tier])]]

-----------------------------------------------------------------------------
(* analyze_companies, analyze_experience, analyze_employment, analyze_schedule *)

\* the label under which a listing is counted, or <<>> when it is not counted
CompanyLabel(v) ==
    LET employer == Get(v, "employer")
    IN  IF Truthy(employer) /\ isinstance_dict(employer)
        THEN <<GetOr(employer.d, "name", NeUkazano)>>
        ELSE IF Truthy(employer) /\ isinstance_str(employer) THEN <<employer>>
        ELSE <<NeUkazano>>

ExperienceLabel(v) ==
    LET exp == ExperienceCode(v)
    IN  <<exp_map_get(exp, exp)>>

\* emp_map.get(code, default)
emp_map_get(code, default) ==
    CASE code = PyStr("full") -> PyStr("Polnaya zanyatost")
      [] code = PyStr("part") -> PyStr("Chastichnaya zanyatost")
      [] code = PyStr("project") -> PyStr("Proektnaya rabota")
      [] code = PyStr("volunteer") -> PyStr("Volonterstvo")
      [] code = PyStr("probation") -> PyStr("Stazhirovka")
      [] OTHER -> default

\* a variant that prefers the name of an employment object to its id
EmploymentLabelNameFirst(v) ==
    LET emp == Get(v, "employment")
    IN  IF Truthy(emp) /\ isinstance_dict(emp)
        THEN <<GetOr(emp.d, "name", emp_map_get(Get(emp.d, "id"), NeUkazano))>>
        ELSE IF Truthy(emp) /\ isinstance_str(emp) THEN <<emp_map_get(emp, emp)>>
        ELSE <<>>

\* a variant with the else branch of analyze_companies
EmploymentLabelWithElse(v) ==
    LET emp == Get(v, "employment")
    IN  IF Truthy(emp) /\ isinstance_dict(emp)
        THEN <<emp_map_get(Get(emp.d, "id"), GetOr(emp.d, "name", NeUkazano))>>
        ELSE IF Truthy(emp) /\ isinstance_str(emp) THEN <<emp_map_get(emp, emp)>>
        ELSE <<NeUkazano>>

EmploymentLabel(v) ==
    LET emp == Get(v, "employment")
    IN  IF Truthy(emp) /\ isinstance_dict(emp)
        THEN <<emp_map_get(Get(emp.d, "id"), GetOr(emp.d, "name", NeUkazano))>>
        ELSE IF Truthy(emp) /\ isinstance_str(emp) THEN <<emp_map_get(emp, emp)>>
        ELSE <<>>

\* a variant that counts every truthy schedule, whatever its type
ScheduleLabelAnyTruthy(v) ==
    LET sched == Get(v, "schedule")
    IN  IF Truthy(sched) /\ isinstance_dict(sched)
        THEN <<GetOr(sched.d, "name", NeUkazano)>>
        ELSE IF Truthy(sched) THEN <<sched>>
        ELSE <<>>

ScheduleLabel(v) ==
    LET sched == Get(v, "schedule")
    IN  IF Truthy(sched) /\ isinstance_dict(sched)
        THEN <<GetOr(sched.d, "name", NeUkazano)>>
        ELSE IF Truthy(sched) /\ isinstance_str(sched) THEN <<sched>>
        ELSE <<>>

\* the label of a listing in one of the four categorical analyses
LabelOf(which, v) ==
    CASE which = "companies" -> CompanyLabel(v)
      [] which = "experience" -> ExperienceLabel(v)
      [] which = "employment" -> EmploymentLabel(v)
      [] which = "schedule" -> ScheduleLabel(v)

\* "for v in vacancies: ... counter[label] += 1"
RECURSIVE CountLabels(_, _, _, _)
CountLabels(which, vs, i, c) ==
    IF Evaluated(c) /\ i > Len(vs) THEN c
    ELSE LET l == LabelOf(which, vs[i])
         IN  CountLabels(which, vs, i + 1,
                         IF l = <<>> THEN c ELSE CounterAdd(c, l[1], 1))

TopCompanies == 20

\* a variant that reports the length of the cut list as the number of
\* employers
analyze_companies_unique_of_top(vs) ==
    LET companies == CountLabels("companies", vs, 1, EmptyCounter)
    IN  [unique |-> Len(most_common_n(companies, TopCompanies)),
         top_20 |-> most_common_n(companies, TopCompanies)]

analyze_companies(vs) ==
    LET companies == CountLabels("companies", vs, 1, EmptyCounter)
    IN  [unique |-> Len(companies),
         top_20 |-> most_common_n(companies, TopCompanies)]

analyze_experience(vs) ==
    most_common(CountLabels("experience", vs, 1, EmptyCounter))

analyze_employment(vs) ==
    most_common(CountLabels("employment", vs, 1, EmptyCounter))

analyze_schedule(vs) ==
    most_common(CountLabels("schedule", vs, 1, EmptyCounter))

-----------------------------------------------------------------------------
(* extract_skills *)

\* tech_skills, in the order and with the repetitions of the source (the one
\* Cyrillic entry, the Russian word for "English", is transliterated)
tech_skills ==
    <<"python", "javascript", "typescript", "java", "c++", "c#", "go",
      "rust", "php", "ruby", "react", "vue", "angular", "node.js", "django",
      "flask", "fastapi", "spring", "laravel", "sql", "postgresql", "mysql",
      "mongodb", "redis", "elasticsearch", "kafka", "rabbitmq", "docker",
      "kubernetes", "aws", "azure", "gcp", "linux", "git", "ci/cd",
      "jenkins", "machine learning", "ml", "ai", "data science", "pytorch",
      "tensorflow", "pandas", "numpy", "rest api", "graphql",
      "microservices", "mongodb", "postgresql", "redis", "agile", "scrum",
      "kanban", "jira", "confluence", "english", "angliyskiy", "b2", "c1",
      "ielts">>

LowerChar(c) ==
    CASE c = "A" -> "a" [] c = "B" -> "b" [] c = "C" -> "c"
      [] c = "D" -> "d" [] c = "E" -> "e" [] c = "F" -> "f"
      [] c = "G" -> "g" [] c = "H" -> "h" [] c = "I" -> "i"
      [] c = "J" -> "j" [] c = "K" -> "k" [] c = "L" -> "l"
      [] c = "M" -> "m" [] c = "N" -> "n" [] c = "O" -> "o"
      [] c = "P" -> "p" [] c = "Q" -> "q" [] c = "R" -> "r"
      [] c = "S" -> "s" [] c = "T" -> "t" [] c = "U" -> "u"
      [] c = "V" -> "v" [] c = "W" -> "w" [] c = "X" -> "x"
      [] c = "Y" -> "y" [] c = "Z" -> "z"
      [] OTHER -> c

UpperChar(c) ==
    CASE c = "a" -> "A" [] c = "b" -> "B" [] c = "c" -> "C"
      [] c = "d" -> "D" [] c = "e" -> "E" [] c = "f" -> "F"
      [] c = "g" -> "G" [] c = "h" -> "H" [] c = "i" -> "I"
      [] c = "j" -> "J" [] c = "k" -> "K" [] c = "l" -> "L"
      [] c = "m" -> "M" [] c = "n" -> "N" [] c = "o" -> "O"
      [] c = "p" -> "P" [] c = "q" -> "Q" [] c = "r" -> "R"
      [] c = "s" -> "S" [] c = "t" -> "T" [] c = "u" -> "U"
      [] c = "v" -> "V" [] c = "w" -> "W" [] c = "x" -> "X"
      [] c = "y" -> "Y" [] c = "z" -> "Z"
      [] OTHER -> c

\* str.lower() and str.upper()
RECURSIVE Lower(_)
Lower(s) ==
    IF Len(s) = 0 THEN ""
    ELSE LowerChar(SubSeq(s, 1, 1)) \o Lower(SubSeq(s, 2, Len(s)))

RECURSIVE Upper(_)
Upper(s) ==
    IF Len(s) = 0 THEN ""
    ELSE UpperChar(SubSeq(s, 1, 1)) \o Upper(SubSeq(s, 2, Len(s)))

\* "k in text" on strings: k occurs as a substring
Contains(text, k) ==
    \E i \in 1..(Len(text) - Len(k) + 1) : SubSeq(text, i, i + Len(k) - 1) = k

\* the vocabulary as the loop uses it: skill.lower() to search, skill.upper()
\* as the key (appending <<>> has TLC keep the list as a tuple)
SkillNeedles == [k \in 1..Len(tech_skills) |-> Lower(tech_skills[k])] \o <<>>
SkillKeys == [k \in 1..Len(tech_skills) |-> PyStr(Upper(tech_skills[k]))] \o <<>>

\* (x or "").lower() needs x to be a str whenever x is truthy
TextHasNoLower(x) == Truthy(x) /\ ~isinstance_str(x)

SnippetText(x) == IF Truthy(x) THEN Lower(x.s) ELSE ""

SkillsHasNoLower(v) ==
    LET snippet == Get(v, "snippet")
    IN  /\ Truthy(snippet) /\ isinstance_dict(snippet)
        /\ \/ TextHasNoLower(Get(snippet.d, "requirement"))
           \/ TextHasNoLower(Get(snippet.d, "responsibility"))

\* the inner loop "for skill in tech_skills" over one text: the entries
\* that match, in the order of the list, and one increment for each of them
MatchingEntries(text) ==
    SelectSeq([k \in 1..Len(tech_skills) |-> k],
              LAMBDA k : Contains(text, SkillNeedles[k]))

RECURSIVE AddEntries(_, _, _)
AddEntries(entries, j, c) ==
    IF Evaluated(c) /\ j > Len(entries) THEN c
    ELSE AddEntries(entries, j + 1, CounterAdd(c, SkillKeys[entries[j]], 1))

SkillLoop(text, c) == AddEntries(MatchingEntries(text), 1, c)

SkillStep(c, v) ==
    LET snippet == Get(v, "snippet")
    IN  IF Truthy(snippet) /\ isinstance_dict(snippet)
        THEN LET requirement == SnippetText(Get(snippet.d, "requirement"))
                 responsibility == SnippetText(Get(snippet.d, "responsibility"))
             IN  SkillLoop(requirement \o " " \o responsibility, c)
        ELSE c

RECURSIVE SkillsFrom(_, _, _)
SkillsFrom(vs, i, c) ==
    IF Evaluated(c) /\ i > Len(vs) THEN c
    ELSE SkillsFrom(vs, i + 1, SkillStep(c, vs[i]))

TopSkills == 20

extract_skills(vs) ==
    IF \E i \in 1..Len(vs) : SkillsHasNoLower(vs[i])
    THEN Raised("AttributeError")
    ELSE LET skill_counter == SkillsFrom(vs, 1, EmptyCounter)
         IN  [top_20 |-> most_common_n(skill_counter, TopSkills),
              total_found |-> Len(skill_counter)]

-----------------------------------------------------------------------------
(* analyze_vacancies *)

\* the dict literal built after the emptiness check; an exception of one of
\* the analyses leaves analyze_vacancies as it is
Summary(vs) ==
    LET salary == analyze_salaries(vs)
        skills == extract_skills(vs)
    IN  IF IsRaised(salary) THEN salary
        ELSE IF IsRaised(skills) THEN skills
        ELSE [total |-> Len(vs),
              salary |-> salary,
              salary_by_experience |-> analyze_salary_by_experience(vs),
              companies |-> analyze_companies(vs),
              experience |-> analyze_experience(vs),
              employment |-> analyze_employment(vs),
              schedule |-> analyze_schedule(vs),
              skills |-> skills]

NoVacancies == [error |-> "Vakansii ne naydeny"]

\* a variant without the "if not vacancies" guard
analyze_vacancies_unguarded(vs) == Summary(vs)

analyze_vacancies(vs) ==
    IF vs = <<>> THEN NoVacancies ELSE Summary(vs)

\* a variant that stores the converted bounds back into the salary object
ListingAfterCallWriteBack(v) ==
    LET salary == Get(v, "salary")
    IN  IF Truthy(salary) /\ isinstance_dict(salary)
        THEN LET currency == GetOr(salary.d, "currency", PyStr("RUR"))
             IN  [k \in DOMAIN v |->
                    IF k = "salary"
                    THEN PyDict([f \in DOMAIN salary.d |->
                                   IF f \in {"from", "to"}
                                   THEN ConvertBound(salary.d[f], currency)
                                   ELSE salary.d[f]])
                    ELSE v[k]]
        ELSE v

\* what a call leaves in a listing it was given: every loop reads v with
\* v.get(...) and rebinds its own locals (from_val, to_val), nothing is
\* assigned into v or into the objects it holds
ListingAfterCall(v) == v

-----------------------------------------------------------------------------
(* the inputs the analyses are run on *)

MaxRuns == 2
MaxSalaryLen == 2
MaxLabelLen == 2
MaxSkillLen == 2
MaxShapeLen == 2
MaxRankLen == 3
MaxDistinct == 22
MaxRepeat == 2
MaxTierLen == 2
MaxStatLen == 3
MaxEdgeLen == 2
MaxCategoryLen == 2

SeqsUpTo(S, n) == UNION {[1..k -> S] : k \in 0..n}

\* a listing that carries all six fields the analyses read; a field that is
\* None reads like a field that is missing, since every field is read with
\* v.get(name)
Listing(salary, experience, employer, employment, schedule, snippet) ==
    [salary |-> salary, experience |-> experience, employer |-> employer,
     employment |-> employment, schedule |-> schedule, snippet |-> snippet]

\* a listing with no field at all
BareListing == <<>>

OnlySalary(salary) == Listing(salary, None, None, None, None, None)

\* a salary object; currency "missing" leaves the key out
Missing == [t |-> "missing"]
SalaryDict(from, to, currency) ==
    IF currency = Missing THEN PyDict([from |-> from, to |-> to])
    ELSE PyDict([from |-> from, to |-> to, currency |-> currency])

FromValues == {None, PyInt(0), PyInt(1000)}
ToValues == {None, PyInt(0), PyInt(2000)}
CurrencyValues == {Missing, PyStr("RUR"), PyStr("USD"), PyStr("EUR"), PyStr("KZT")}

SalaryShapes ==
    {None, EmptyDict}
    \cup {SalaryDict(f, t, c) : f \in FromValues, t \in ToValues, c \in CurrencyValues}

SalaryListings == {OnlySalary(s) : s \in SalaryShapes}
SalaryInputs == SeqsUpTo(SalaryListings, MaxSalaryLen)

\* the shapes of experience, employer, employment and schedule
ExperienceShapes ==
    {None, EmptyDict, PyStr(""),
     PyDict([id |-> PyStr("noExperience"), name |-> PyStr("Net opyta")]),
     PyDict([id |-> PyStr("moreThan6")]),
     PyDict([id |-> PyStr("moreThan10")]),
     PyDict([name |-> PyStr("Net opyta")]),
     PyStr("between1And3"), PyStr("senior")}

EmployerShapes ==
    {None, EmptyDict, PyStr(""),
     PyDict([id |-> PyStr("1"), name |-> PyStr("Yandex")]),
     PyDict([id |-> PyStr("2")]),
     PyStr("Yandex"), PyStr("Ozon")}

EmploymentShapes ==
    {None, EmptyDict, PyStr(""),
     PyDict([id |-> PyStr("full"), name |-> PyStr("Full time")]),
     PyDict([id |-> PyStr("shift"), name |-> PyStr("Vakhta")]),
     PyDict([id |-> PyStr("shift")]),
     PyStr("full"), PyStr("part"), PyStr("shift")}

ScheduleShapes ==
    {None, EmptyDict, PyStr(""),
     PyDict([id |-> PyStr("remote"), name |-> PyStr("Udalennaya rabota")]),
     PyDict([id |-> PyStr("remote")]),
     PyStr("remote"), PyStr("fullDay")}

\* a salary that puts the listing into the sample of its experience tier
SomeSalary == SalaryDict(PyInt(1000), None, PyStr("RUR"))

LabelListings ==
    {BareListing}
    \cup {Listing(s, e, None, None, None, None) :
              s \in {None, SomeSalary}, e \in ExperienceShapes}
    \cup {Listing(None, None, e, None, None, None) : e \in EmployerShapes}
    \cup {Listing(None, None, None, e, None, None) : e \in EmploymentShapes}
    \cup {Listing(None, None, None, None, e, None) : e \in ScheduleShapes}
LabelInputs == SeqsUpTo(LabelListings, MaxLabelLen)

\* snippets
Snippet(requirement, responsibility) ==
    PyDict([requirement |-> requirement, responsibility |-> responsibility])

SnippetShapes ==
    {None, EmptyDict,
     PyDict([requirement |-> PyStr("Python, Django")]),
     Snippet(PyStr("Redis"), None),
     Snippet(PyStr("redis, REDIS cluster"), PyStr("redis")),
     Snippet(None, PyStr("PostgreSQL or MongoDB")),
     Snippet(PyStr("JavaScript"), PyStr("")),
     Snippet(PyStr("Opyt raboty"), PyStr("git"))}

SkillListings == {Listing(None, None, None, None, None, s) : s \in SnippetShapes}
SkillInputs == SeqsUpTo(SkillListings, MaxSkillLen)

\* fields of a shape the data model does not name
ShapeListings ==
    {BareListing,
     OnlySalary(SomeSalary),
     OnlySalary(PyStr("100000")),
     OnlySalary(PyInt(100000)),
     OnlySalary(PyStr("")),
     OnlySalary(PyInt(0)),
     Listing(None, PyInt(3), PyInt(7), PyInt(1), PyInt(2), PyStr("python")),
     Listing(None, None, None, None, None, Snippet(PyInt(5), None)),
     Listing(None, None, None, None, None, Snippet(None, EmptyDict)),
     Listing(None, None, None, None, None, Snippet(PyStr("sql"), PyDict([a |-> None])))}
ShapeInputs == SeqsUpTo(ShapeListings, MaxShapeLen)

\* listings for the rankings: each one adds a label to every ranked output
RankListing(currency, code, name, text) ==
    Listing(SalaryDict(PyInt(1000), None, PyStr(currency)),
            PyDict([id |-> PyStr(code)]),
            PyDict([name |-> PyStr(name)]),
            PyStr(code), PyStr(name),
            Snippet(PyStr(text), None))

RankListings ==
    {BareListing,
     RankListing("RUR", "noExperience", "Yandex", "python sql"),
     RankListing("USD", "between1And3", "Ozon", "sql"),
     RankListing("EUR", "moreThan6", "Avito", "java")}

\* the k-th of a run of listings with pairwise different labels: its skill
\* text is the k-th vocabulary entry
NumberedListing(k) ==
    RankListing(ToString(k), ToString(k), ToString(k), tech_skills[k])

Distinct(k) == [i \in 1..k |-> NumberedListing(i)]

\* a run of k pairwise different listings, then its first or its last
\* listing again, up to MaxRepeat times
ManyLabelInputs ==
    {Distinct(k) \o tail :
         k \in 1..MaxDistinct,
         tail \in SeqsUpTo({NumberedListing(1), NumberedListing(MaxDistinct)}, MaxRepeat)}

RankInputs == SeqsUpTo(RankListings, MaxRankLen) \cup ManyLabelInputs

\* salaries with both bounds, one bound or none, in every experience tier
TierSalaryShapes ==
    {None,
     SalaryDict(None, None, PyStr("RUR")),
     SalaryDict(PyInt(1000), None, PyStr("RUR")),
     SalaryDict(PyInt(1000), PyInt(2000), PyStr("USD"))}

TierExperienceShapes ==
    {None,
     PyDict([id |-> PyStr("noExperience")]),
     PyStr("between1And3"),
     PyDict([id |-> PyStr("between3And6")]),
     PyStr("moreThan6"),
     PyStr("senior")}

TierListings ==
    {Listing(s, e, None, None, None, None) :
         s \in TierSalaryShapes, e \in TierExperienceShapes}
TierInputs == SeqsUpTo(TierListings, MaxTierLen)

\* samples for the statistics: 100000, 200000, 300000, and the small values
\* 1.5 (from 1 to 2) and 2 whose means fall between two integers
StatSalaryShapes ==
    {None,
     SalaryDict(PyInt(100000), None, PyStr("RUR")),
     SalaryDict(None, PyInt(200000), PyStr("RUR")),
     SalaryDict(PyInt(300000), None, Missing),
     SalaryDict(PyInt(1), PyInt(2), PyStr("RUR")),
     SalaryDict(PyInt(2), None, PyStr("RUR"))}
StatListings == {OnlySalary(s) : s \in StatSalaryShapes}
StatInputs == SeqsUpTo(StatListings, MaxStatLen)

\* representative values on and next to every edge of the histogram
EdgeValues ==
    {99999, 100000, 149999, 150000, 199999, 200000, 249999, 250000,
     299999, 300000, 399999, 400000, 500000}
EdgeSalaryShapes ==
    {SalaryDict(PyInt(x), None, PyStr("RUR")) : x \in EdgeValues}
    \cup {SalaryDict(PyInt(99999), PyInt(100000), PyStr("RUR")),
          SalaryDict(PyInt(1000), PyInt(2000), PyStr("EUR"))}
EdgeListings == {OnlySalary(s) : s \in EdgeSalaryShapes}
EdgeInputs == SeqsUpTo(EdgeListings, MaxEdgeLen)

\* one value carried by employer, employment and schedule alike, and a
\* listing whose fields are numbers
SameInAllThree(x) == Listing(None, None, x, x, x, None)

CategoryListings ==
    LabelListings
    \cup {SameInAllThree(x) : x \in EmploymentShapes}
    \cup {SameInAllThree(PyDict([name |-> PyStr("Full time")])),
          Listing(None, PyInt(3), PyInt(7), PyInt(1), PyInt(2), None)}
CategoryInputs == SeqsUpTo(CategoryListings, MaxCategoryLen)

-----------------------------------------------------------------------------
(* the state machine: a caller holds a list and calls analyze_vacancies *)

\* the bot has sent nothing yet
NoMessage == [kind |-> "none"]

\* the listing source and the bot at rest: nothing cached, no message
\* handled, no handler suspended
SourceAtRest ==
    /\ cache = <<>>
    /\ now = 0
    /\ pc = "idle"
    /\ calls = 0
    /\ query = ""
    /\ area = None
    /\ page = 0
    /\ all_vacancies = <<>>
    /\ requests = <<>>
    /\ result = None
    /\ caught = "none"
    /\ answer = "none"
    /\ results_cache = <<>>
    /\ tasks = <<>>
    /\ sent = NoMessage

InitOn(inputs) ==
    /\ vacancies \in inputs
    /\ stats = NoCall
    /\ runs = 0
    /\ SourceAtRest

AnalyzeVacancies ==
    /\ runs < MaxRuns
    /\ pc = "idle"
    /\ stats' = analyze_vacancies(vacancies)
    /\ vacancies' = [i \in 1..Len(vacancies) |-> ListingAfterCall(vacancies[i])]
    /\ runs' = runs + 1
    /\ UNCHANGED <<source_vars, handler_vars>>

Next == AnalyzeVacancies

InitSalary == InitOn(SalaryInputs)
InitLabel == InitOn(LabelInputs)
InitSkill == InitOn(SkillInputs)
InitShape == InitOn(ShapeInputs)
InitRank == InitOn(RankInputs)
InitTier == InitOn(TierInputs)
InitStat == InitOn(StatInputs)
InitEdge == InitOn(EdgeInputs)
InitCategory == InitOn(CategoryInputs)
Init == InitOn(LabelInputs \cup SkillInputs \cup RankInputs)

SpecSalary == InitSalary /\ [][Next]_vars
SpecLabel == InitLabel /\ [][Next]_vars
SpecSkill == InitSkill /\ [][Next]_vars
SpecShape == InitShape /\ [][Next]_vars
SpecRank == InitRank /\ [][Next]_vars
SpecTier == InitTier /\ [][Next]_vars
SpecStat == InitStat /\ [][Next]_vars
SpecEdge == InitEdge /\ [][Next]_vars
SpecCategory == InitCategory /\ [][Next]_vars
Spec == Init /\ [][Next]_vars

-----------------------------------------------------------------------------
(* hh_api: the cache of first pages *)

\* str(area) as the key holds it
StrOf(v) == IF v = None THEN "None" ELSE v.s

\* the part of the key made of the keyword arguments, which get_all_vacancies
\* passes on from its caller; process_city passes none, so each is None
KwargsPart ==
    "|employment:None|experience:None|salary_from:None|salary_to:None|schedule:None"

\* _get_cache_key(text, area, **kwargs)
get_cache_key(text, a) == text \o "|" \o StrOf(a) \o KwargsPart

cache_ttl == 30

\* _get_from_cache(key): the stored response if it is younger than the ttl,
\* else None; an entry that is too old is deleted
get_from_cache(c, key, t) ==
    IF key \in DOMAIN c
    THEN IF t - c[key].timestamp < cache_ttl
         THEN [data |-> c[key].data, cache |-> c]
         ELSE [data |-> None, cache |-> [k \in DOMAIN c \ {key} |-> c[k]]]
    ELSE [data |-> None, cache |-> c]

\* _set_cache(key, data)
set_cache(c, key, data, t) ==
    [k \in DOMAIN c \cup {key} |->
        IF k = key THEN [data |-> data, timestamp |-> t] ELSE c[k]]

-----------------------------------------------------------------------------
(* hh_api.get_area_id *)

\* the table areas, city names transliterated
areas ==
    <<<<"moskva", "1">>, <<"moscow", "1">>, <<"sankt-peterburg", "2">>,
      <<"spb", "2">>, <<"novosibirsk", "4">>, <<"ekaterinburg", "3">>,
      <<"kazan", "88">>, <<"nizhniy novgorod", "66">>, <<"chelyabinsk", "73">>,
      <<"samara", "50">>, <<"omsk", "68">>, <<"rostov-na-donu", "76">>,
      <<"ufa", "99">>, <<"krasnoyarsk", "46">>, <<"perm", "72">>,
      <<"voronezh", "26">>, <<"volgograd", "24">>, <<"krasnodar", "53">>,
      <<"saratov", "79">>, <<"tyumen", "98">>, <<"tolyatti", "86">>,
      <<"izhevsk", "45">>, <<"barnaul", "17">>, <<"ulyanovsk", "95">>,
      <<"irkutsk", "42">>, <<"khabarovsk", "39">>, <<"yaroslavl", "104">>,
      <<"vladivostok", "33">>, <<"makhachkala", "59">>, <<"tomsk", "90">>,
      <<"orenburg", "70">>, <<"kemerovo", "47">>, <<"novokuznetsk", "64">>,
      <<"ryazan", "78">>, <<"astrakhan", "16">>, <<"naberezhnye chelny", "61">>,
      <<"penza", "71">>, <<"lipetsk", "55">>, <<"kirov", "49">>,
      <<"tula", "91">>, <<"cheboksary", "100">>, <<"kaliningrad", "22">>,
      <<"bryansk", "20">>, <<"kursk", "54">>, <<"ulyanovsk", "95">>,
      <<"udalenno", "113">>, <<"udalennaya rabota", "113">>,
      <<"remote", "113">>>>

\* str.strip() for blanks
RECURSIVE Strip(_)
Strip(s) ==
    IF Len(s) = 0 THEN s
    ELSE IF SubSeq(s, 1, 1) = " " THEN Strip(SubSeq(s, 2, Len(s)))
    ELSE IF SubSeq(s, Len(s), Len(s)) = " " THEN Strip(SubSeq(s, 1, Len(s) - 1))
    ELSE s

\* str.isdigit(): not empty and digits only
isdigit(s) ==
    /\ Len(s) > 0
    /\ \A i \in 1..Len(s) :
          SubSeq(s, i, i) \in {"0", "1", "2", "3", "4", "5", "6", "7", "8", "9"}

\* areas.get(city_lower, "1"): a city the table does not know is Moscow
get_area_id(city_name) ==
    LET city_lower == Strip(Lower(city_name))
        known == {k \in 1..Len(areas) : areas[k][1] = city_lower}
    IN  IF known = {} THEN "1"
        ELSE areas[CHOOSE k \in known : \A j \in known : k >= j][2]

-----------------------------------------------------------------------------
(* hh_api.search_vacancies *)

\* what the HTTP request of one call ends in: a response with a status (and
\* the JSON body of a 200), asyncio.TimeoutError or aiohttp.ClientError
Response(status, data) == [kind |-> "response", status |-> status, data |-> data]
NoBody == <<>>
TimedOut == [kind |-> "TimeoutError"]
ClientError == [kind |-> "ClientError"]

\* the exception search_vacancies raises for an outcome that is no 200; the
\* source tells the kinds apart by the message of the Exception
FailureOf(outcome) ==
    IF outcome.kind = "TimeoutError" THEN "timeout"
    ELSE IF outcome.kind = "ClientError" THEN "connection"
    ELSE IF outcome.status = 429 THEN "rate limit"
    ELSE IF outcome.status >= 500 THEN "server error"
    ELSE "http error"

\* search_vacancies(text, area, page=page) with use_cache=True, run on the
\* cache c at time t when its HTTP request, if it sends one, ends in
\* outcome: the result (a body or an exception), the cache afterwards and
\* whether a request was sent
search_vacancies(text, a, p, outcome, c, t) ==
    LET looked == IF p = 0
                  THEN get_from_cache(c, get_cache_key(text, a), t)
                  ELSE [data |-> None, cache |-> c]
        cached == looked.data
        resolved == IF Truthy(a) /\ ~isdigit(a.s)
                    THEN PyStr(get_area_id(a.s)) ELSE a
    IN  IF p = 0 /\ cached # None /\ DOMAIN cached # {}
        THEN [result |-> cached, cache |-> looked.cache, requested |-> FALSE]
        ELSE IF outcome.kind = "response" /\ outcome.status = 200
        THEN [result |-> outcome.data,
              cache |-> IF p = 0
                        THEN set_cache(looked.cache, get_cache_key(text, resolved),
                                       outcome.data, t)
                        ELSE looked.cache,
              requested |-> TRUE]
        ELSE [result |-> Raised(FailureOf(outcome)),
              cache |-> looked.cache,
              requested |-> TRUE]

-----------------------------------------------------------------------------
(* hh_api.get_all_vacancies and its caller bot.process_city *)

MaxCalls == 2
MaxClock == 30
TickMinutes == 15
MaxPages == 3

\* max_pages of the calls of get_all_vacancies (process_city passes 10)
max_pages == MaxPages

\* a number of pages no call gets to the end of
ManyPages == max_pages + 1

\* the listing a page of the upstream search holds
ItemOf(p) == NumberedListing(p + 1)

\* the bodies of a 200 for a page: with and without items, the number of
\* pages as it is, too small or missing
BodiesOf(p) ==
    {[items |-> <<ItemOf(p)>>, pages |-> ManyPages, found |-> ManyPages],
     [items |-> <<ItemOf(p)>>, pages |-> p + 1, found |-> p + 1],
     [items |-> <<ItemOf(p)>>, found |-> 1],
     [items |-> <<>>, pages |-> 0, found |-> 0],
     [pages |-> 1]}

OutcomesOf(p) ==
    {Response(200, body) : body \in BodiesOf(p)}
    \cup {Response(s, NoBody) : s \in {429, 500, 503, 404}}
    \cup {TimedOut, ClientError}

\* message.text of the city message: a button of the keyboard or typed text
Cancel == "X Otmena"
AllCities == "Vse goroda"
CityTexts == {Cancel, AllCities, "Moskva", "1"}
Queries == {"python"}
Users == {"u1"}

\* time passes
Tick ==
    /\ now + TickMinutes <= MaxClock
    /\ now' = now + TickMinutes
    /\ UNCHANGED <<analysis_vars, handler_vars, cache, pc, calls, query, area, page,
                   all_vacancies, requests, result, caught, answer,
                   results_cache>>

\* process_city up to its first await inside get_all_vacancies: a cancel
\* message is answered at once, any other starts get_all_vacancies
ProcessCity ==
    /\ pc = "idle"
    /\ calls < MaxCalls
    /\ \E msg \in CityTexts, q \in Queries :
          LET text == Strip(msg)
          IN  /\ calls' = calls + 1
              /\ IF text = Cancel
                 THEN /\ answer' = "cancelled"
                      /\ UNCHANGED <<pc, query, area, page, all_vacancies,
                                     requests, result, caught>>
                 ELSE /\ answer' = "none"
                      /\ pc' = "loop"
                      /\ query' = q
                      /\ area' = IF text = AllCities THEN None ELSE PyStr(text)
                      /\ page' = 0
                      /\ all_vacancies' = <<>>
                      /\ requests' = <<>>
                      /\ result' = None
                      /\ caught' = "none"
    /\ UNCHANGED <<analysis_vars, handler_vars, cache, now, results_cache>>

\* result.get(key, default) on a body
BodyGet(body, key, default) == IF key \in DOMAIN body THEN body[key] ELSE default

\* page >= result.get("pages", 1) - 1 with p for page: one more page past
\* the last one reported
IsLastPagePlusOne(p, body) == p >= BodyGet(body, "pages", 1)

\* page >= result.get("pages", 1) - 1: the response says this is the last page
IsLastPage(p, body) == p >= BodyGet(body, "pages", 1) - 1

\* one round of the while loop of get_all_vacancies: the call of
\* search_vacancies and what the loop does with its result or its exception
GetAllVacanciesPage ==
    /\ pc = "loop"
    /\ page < max_pages
    /\ \E outcome \in OutcomesOf(page) :
          LET r == search_vacancies(query, area, page, outcome, cache, now)
              items == BodyGet(r.result, "items", <<>>)
          IN  /\ cache' = r.cache
              /\ requests' = IF r.requested THEN Append(requests, page) ELSE requests
              /\ IF IsRaised(r.result)
                 THEN /\ caught' = r.result.raised
                      /\ pc' = "returned"
                      /\ UNCHANGED <<page, all_vacancies, result>>
                 ELSE IF items = <<>>
                 THEN /\ result' = r.result
                      /\ pc' = "returned"
                      /\ UNCHANGED <<page, all_vacancies, caught>>
                 ELSE /\ result' = r.result
                      /\ all_vacancies' = all_vacancies \o items
                      /\ IF IsLastPage(page, r.result)
                         THEN pc' = "returned" /\ page' = page
                         ELSE pc' = "loop" /\ page' = page + 1
                      /\ UNCHANGED caught
    /\ UNCHANGED <<analysis_vars, handler_vars, now, calls, query, area, answer, results_cache>>

\* the while condition fails: max_pages pages have been read
GetAllVacanciesLast ==
    /\ pc = "loop"
    /\ page >= max_pages
    /\ pc' = "returned"
    /\ UNCHANGED <<analysis_vars, handler_vars, cache, now, calls, query, area, page,
                   all_vacancies, requests, result, caught, answer,
                   results_cache>>

\* the dict process_city stores in results_cache
CacheEntry(q, area_name, st, vs) ==
    [query |-> q, area |-> area_name, stats |-> st, vacancies |-> vs,
     vacancies_count |-> Len(vs)]

\* results_cache[user_id] = entry
StoreEntry(rc, user_id, entry) ==
    [u \in DOMAIN rc \cup {user_id} |-> IF u = user_id THEN entry ELSE rc[u]]

\* area_name of process_city for the area it passes on
AreaName(a) == IF a = None THEN AllCities ELSE a.s

\* process_city once get_all_vacancies has returned: "not found" for an empty
\* list, else the analysis, the entry of the user in results_cache and the
\* report; an exception of the analysis is answered as an error, and so is
\* an exception of the Telegram calls that follow (status_msg.delete() and
\* message.answer(...) are inside the same try).  The locals of
\* get_all_vacancies end with its call.
ProcessCityAnswer ==
    /\ pc = "returned"
    /\ pc' = "idle"
    /\ vacancies' = all_vacancies
    /\ query' = ""
    /\ area' = None
    /\ page' = 0
    /\ all_vacancies' = <<>>
    /\ requests' = <<>>
    /\ result' = None
    /\ caught' = "none"
    /\ \E user_id \in Users, delivered \in BOOLEAN :
          LET st == analyze_vacancies(all_vacancies)
          IN  IF all_vacancies = <<>>
              THEN /\ answer' = IF delivered THEN "not found" ELSE "error"
                   /\ UNCHANGED <<stats, runs, results_cache>>
              ELSE IF IsRaised(st)
              THEN /\ answer' = "error"
                   /\ runs' = runs + 1
                   /\ UNCHANGED <<stats, results_cache>>
              ELSE /\ answer' = IF delivered THEN "report" ELSE "error"
                   /\ stats' = st
                   /\ runs' = runs + 1
                   /\ results_cache' =
                        StoreEntry(results_cache, user_id,
                                   CacheEntry(query, AreaName(area), st,
                                              all_vacancies))
    /\ UNCHANGED <<cache, now, calls, handler_vars>>

NextSource ==
    \/ Tick
    \/ ProcessCity
    \/ GetAllVacanciesPage
    \/ GetAllVacanciesLast
    \/ ProcessCityAnswer

InitSource == InitOn({<<>>})
SpecSource == InitSource /\ [][NextSource]_vars

\* every await of get_all_vacancies ends: the HTTP session has a total
\* timeout of 30 seconds and asyncio.sleep(0.5) is finite, so a loop that can
\* take its next step does take it
SpecSourceFair ==
    /\ SpecSource
    /\ WF_vars(GetAllVacanciesPage)
    /\ WF_vars(GetAllVacanciesLast)

-----------------------------------------------------------------------------
(* bot: the handlers of several users, interleaved at their awaits *)

\* aiogram runs the handler of every update as a task of its own; a handler
\* gives way to the others at its awaits only.  Here await
\* get_all_vacancies(...) is one suspension of process_city: the handler
\* resumes with a list get_all_vacancies can return.  btn_pdf is suspended
\* once, at the answer that announces the PDF, after it has read the entry.

MaxTasks == 2
MaxMessages == 3
MaxFetched == 2

Senders == {"u1", "u2"}
Tasks == 1..MaxTasks

\* a listing analyze_vacancies cannot read: the salary is a string
Unanalysable == OnlySalary(PyStr("100000"))

\* the items of pages 0 .. k-1 of the upstream search
PagesUpTo(k) == [i \in 1..k |-> ItemOf(i - 1)] \o <<>>

\* what await get_all_vacancies(...) gives process_city: nothing, the first
\* pages of the search, or listings the analysis fails on
FetchedLists == {PagesUpTo(k) : k \in 0..MaxFetched} \cup {<<Unanalysable>>}

Suspended == DOMAIN tasks
CanStart == calls < MaxMessages /\ Suspended # Tasks
NewTask == CHOOSE t \in Tasks \ Suspended : \A s \in Tasks \ Suspended : t <= s
Suspend(task) == [t \in Suspended \cup {NewTask} |-> IF t = NewTask THEN task ELSE tasks[t]]
Resume(t) == [s \in Suspended \ {t} |-> tasks[s]]

\* process_city up to await get_all_vacancies(...): a cancel message is
\* answered at once, any other is answered with the status message
ProcessCityStart ==
    /\ CanStart
    /\ \E user_id \in Senders, msg \in CityTexts, q \in Queries :
          LET text == Strip(msg)
          IN  IF text = Cancel
              THEN /\ sent' = [to |-> user_id, kind |-> "cancelled"]
                   /\ UNCHANGED tasks
              ELSE /\ sent' = [to |-> user_id, kind |-> "status"]
                   /\ tasks' = Suspend([handler |-> "process_city",
                                        user |-> user_id,
                                        query |-> q,
                                        area_name |-> text])
    /\ calls' = calls + 1
    /\ UNCHANGED <<analysis_vars, cache, now, pc, query, area, page,
                   all_vacancies, requests, result, caught, answer,
                   results_cache>>

\* process_city from the return of get_all_vacancies to its end: no await
\* lies between the test of the list and the assignment to results_cache;
\* the Telegram calls come after it, inside the try
ProcessCityFinish ==
    /\ \E t \in Suspended, vs \in FetchedLists, delivered \in BOOLEAN :
          /\ tasks[t].handler = "process_city"
          /\ tasks' = Resume(t)
          /\ LET user_id == tasks[t].user
                 st == analyze_vacancies(vs)
                 failed == [to |-> user_id, kind |-> "error", cause |-> "telegram"]
             IN  IF vs = <<>>
                 THEN /\ sent' = IF delivered
                                 THEN [to |-> user_id, kind |-> "not found"]
                                 ELSE failed
                      /\ UNCHANGED results_cache
                 ELSE IF IsRaised(st)
                 THEN /\ sent' = [to |-> user_id, kind |-> "error",
                                  cause |-> st.raised]
                      /\ UNCHANGED results_cache
                 ELSE /\ results_cache' =
                           StoreEntry(results_cache, user_id,
                                      CacheEntry(tasks[t].query, tasks[t].area_name,
                                                 st, vs))
                      /\ sent' = IF delivered
                                 THEN [to |-> user_id, kind |-> "report",
                                       query |-> tasks[t].query,
                                       area |-> tasks[t].area_name,
                                       stats |-> st]
                                 ELSE failed
    /\ UNCHANGED <<analysis_vars, cache, now, pc, calls, query, area, page,
                   all_vacancies, requests, result, caught, answer>>

\* btn_pdf up to its await: "no data" when the user has no entry, else the
\* entry is bound to the local cache and the PDF is announced
BtnPdf ==
    /\ CanStart
    /\ \E user_id \in Senders :
          IF user_id \notin DOMAIN results_cache
          THEN /\ sent' = [to |-> user_id, kind |-> "no data"]
               /\ UNCHANGED tasks
          ELSE /\ sent' = [to |-> user_id, kind |-> "status"]
               /\ tasks' = Suspend([handler |-> "btn_pdf",
                                    user |-> user_id,
                                    cache |-> results_cache[user_id]])
    /\ calls' = calls + 1
    /\ UNCHANGED <<analysis_vars, cache, now, pc, query, area, page,
                   all_vacancies, requests, result, caught, answer,
                   results_cache>>

\* btn_pdf after its await: the PDF is made of the local cache and sent, or
\* the failure of generate_pdf_report is answered
BtnPdfSend ==
    /\ \E t \in Suspended, generated \in BOOLEAN :
          /\ tasks[t].handler = "btn_pdf"
          /\ tasks' = Resume(t)
          /\ sent' = IF generated
                     THEN [to |-> tasks[t].user, kind |-> "document",
                           query |-> tasks[t].cache.query,
                           area |-> tasks[t].cache.area,
                           stats |-> tasks[t].cache.stats,
                           vacancies |-> tasks[t].cache.vacancies,
                           vacancies_count |-> tasks[t].cache.vacancies_count]
                     ELSE [to |-> tasks[t].user, kind |-> "error", cause |-> "pdf"]
    /\ UNCHANGED <<analysis_vars, cache, now, pc, calls, query, area, page,
                   all_vacancies, requests, result, caught, answer,
                   results_cache>>

\* btn_stats: no await before its answer
BtnStats ==
    /\ calls < MaxMessages
    /\ \E user_id \in Senders :
          sent' = IF user_id \notin DOMAIN results_cache
                  THEN [to |-> user_id, kind |-> "no data"]
                  ELSE [to |-> user_id, kind |-> "report",
                        query |-> results_cache[user_id].query,
                        area |-> results_cache[user_id].area,
                        stats |-> results_cache[user_id].stats]
    /\ calls' = calls + 1
    /\ UNCHANGED <<analysis_vars, cache, now, pc, query, area, page,
                   all_vacancies, requests, result, caught, answer,
                   results_cache, tasks>>

NextHandlers ==
    \/ ProcessCityStart
    \/ ProcessCityFinish
    \/ BtnPdf
    \/ BtnPdfSend
    \/ BtnStats

SpecHandlers == InitSource /\ [][NextHandlers]_vars

-----------------------------------------------------------------------------
(* properties *)

\* the latest call returned a summary (no error result, no exception)
Returned == runs > 0 /\ "total" \in DOMAIN stats

CounterTotal(c) == SumSeq([i \in 1..Len(c) |-> c[i].n])

DistributionTotal(dist) ==
    SumSeq([k \in 1..Len(BucketLabels) |-> dist[BucketLabels[k]]])

\* C1: whenever analyze_salaries reports available = True, the counts of the
\* seven buckets of salary.distribution sum to salary.count, and salary.count
\* is at most the number of listings
C1_BucketsSumToCount ==
    Returned /\ stats.salary.available =>
        /\ DOMAIN stats.salary.distribution
               = {BucketLabels[k] : k \in 1..Len(BucketLabels)}
        /\ DistributionTotal(stats.salary.distribution) = stats.salary.count
        /\ stats.salary.count <= Len(vacancies)
        /\ stats.salary.count <= stats.total

\* two listings, one of them without a usable bound, the other with the
\* representative value 150000 (1000 and 2000 EUR), an edge of the histogram
C1_Witness ==
    /\ Returned /\ stats.salary.available
    /\ Len(vacancies) = 2
    /\ stats.salary.count = 1
    /\ stats.salary.distribution["150-200k"] = 1

\* C2: every listing raises the count of an emitted skill name by at most
\* one, so no skill is counted more often than there are listings
C2_SkillCountAtMostListings ==
    Returned =>
        \A i \in 1..Len(stats.skills.top_20) :
            stats.skills.top_20[i].n <= Len(vacancies)

\* the field is absent: missing, None or empty
Absent(v, field) == ~Truthy(Get(v, field))

NumPresent(field) ==
    Cardinality({i \in 1..Len(vacancies) : ~Absent(vacancies[i], field)})
NumAbsent(field) ==
    Cardinality({i \in 1..Len(vacancies) : Absent(vacancies[i], field)})

C4_KeysAreTiers ==
    Returned =>
        /\ \A i \in 1..Len(stats.experience) : stats.experience[i].key \in TierSet
        /\ DOMAIN stats.salary_by_experience \subseteq TierSet

\* the representative value (doubled) as C5 states it: a bound is present
\* when it is a number, 0 included
StatedRate(currency) ==
    IF currency = PyStr("USD") THEN 90
    ELSE IF currency = PyStr("EUR") THEN 100
    ELSE 1

StatedRepresentative2(v) ==
    LET salary == Get(v, "salary")
    IN  IF ~isinstance_dict(salary) THEN <<>>
        ELSE
        LET from == Get(salary.d, "from")
            to == Get(salary.d, "to")
            rate == StatedRate(GetOr(salary.d, "currency", PyStr("RUR")))
        IN  IF from # None /\ to # None THEN <<rate * from.n + rate * to.n>>
            ELSE IF from # None THEN <<2 * rate * from.n>>
            ELSE IF to # None THEN <<2 * rate * to.n>>
            ELSE <<>>

RECURSIVE StatedSample2(_, _)
StatedSample2(vs, i) ==
    IF i > Len(vs) THEN <<>>
    ELSE StatedRepresentative2(vs[i]) \o StatedSample2(vs, i + 1)

\* C5: the sample holds the average of the two converted bounds when both
\* are present, the one present bound otherwise, and nothing for a listing
\* with neither; a bound of 0 is present
C5_ZeroBoundIsPresent ==
    Returned =>
        LET sample == StatedSample2(vacancies, 1)
        IN  IF sample = <<>> THEN ~stats.salary.available
            ELSE /\ stats.salary.available
                 /\ stats.salary.count = Len(sample)
                 /\ stats.salary.min = Trunc(SeqMin(sample), 2)
                 /\ stats.salary.max = Trunc(SeqMax(sample), 2)
                 /\ NeUkazano \in DOMAIN stats.salary_by_experience
                 /\ stats.salary_by_experience[NeUkazano].count = Len(sample)
                 /\ stats.salary_by_experience[NeUkazano].min = Trunc(SeqMin(sample), 2)

\* the listing with its salary priced in RUR: each bound that is a number is
\* multiplied by the rate of its currency (90 for USD, 100 for EUR)
InRoubles(v) ==
    LET salary == Get(v, "salary")
    IN  IF ~(Truthy(salary) /\ isinstance_dict(salary)) THEN v
        ELSE
        LET currency == GetOr(salary.d, "currency", PyStr("RUR"))
        IN  IF currency \notin {PyStr("USD"), PyStr("EUR")} THEN v
            ELSE [k \in DOMAIN v |->
                    IF k # "salary" THEN v[k]
                    ELSE PyDict([f \in DOMAIN salary.d |->
                            IF f = "currency" THEN PyStr("RUR")
                            ELSE IF f \in {"from", "to"} /\ salary.d[f] # None
                            THEN PyInt(StatedRate(currency) * salary.d[f].n)
                            ELSE salary.d[f]])]

AllInRoubles == [i \in 1..Len(vacancies) |-> InRoubles(vacancies[i])]

\* every entry of the overall statistics but the currency counts
Aggregates(salary) == [k \in DOMAIN salary \ {"currencies"} |-> salary[k]]

OneFrom1000(currency) == <<OnlySalary(SalaryDict(PyInt(1000), None, currency))>>

\* C6: USD bounds are multiplied by 90 and EUR bounds by 100 before any
\* aggregate is computed, bounds in RUR, in an absent or in another currency
\* are used as they are: the statistics of a list equal those of the same
\* list priced in RUR at these rates, and one listing with from = 1000 has
\* min 1000 in RUR and 90000 in USD, overall and in its experience tier
C6_ConvertedBeforeAggregates ==
    Returned =>
        /\ Aggregates(stats.salary) = Aggregates(analyze_salaries(AllInRoubles))
        /\ stats.salary_by_experience = analyze_salary_by_experience(AllInRoubles)
        /\ \A c \in CurrencyValues :
              vacancies = OneFrom1000(c) =>
                  /\ stats.salary.min = 1000 * StatedRate(c)
                  /\ stats.salary_by_experience[NeUkazano].min = 1000 * StatedRate(c)
        /\ vacancies = OneFrom1000(PyStr("RUR")) => stats.salary.min = 1000
        /\ vacancies = OneFrom1000(PyStr("USD")) => stats.salary.min = 90000
        /\ vacancies = OneFrom1000(PyStr("EUR")) => stats.salary.min = 100000
        /\ vacancies = OneFrom1000(PyStr("KZT")) => stats.salary.min = 1000
        /\ vacancies = OneFrom1000(Missing) => stats.salary.min = 1000

\* the single listing from = 1000 USD, analysed
C6_Witness ==
    /\ Returned
    /\ vacancies = OneFrom1000(PyStr("USD"))
    /\ stats.salary.min = 90000
    /\ stats.salary_by_experience[NeUkazano].min = 90000

\* C7: whatever the shape of a listing's fields, analyze_vacancies on a
\* non-empty list returns a summary
C7_NeverAborts ==
    runs > 0 /\ vacancies # <<>> =>
        /\ ~IsRaised(stats)
        /\ "total" \in DOMAIN stats
        /\ stats.total = Len(vacancies)

\* C8: on an empty list analyze_vacancies raises nothing and returns the
\* error result, which holds no statistics; on a non-empty list it returns
\* a summary whose total is the number of listings
C8_EmptyIsErrorResult ==
    runs > 0 =>
        /\ ~IsRaised(stats)
        /\ vacancies = <<>> => DOMAIN stats = {"error"}
        /\ vacancies # <<>> =>
              /\ "error" \notin DOMAIN stats
              /\ "total" \in DOMAIN stats
              /\ stats.total = Len(vacancies)

\* the empty list, analysed
C8_Witness ==
    /\ runs > 0
    /\ vacancies = <<>>
    /\ stats = NoVacancies

\* the ranked outputs of a summary, and the counter each is cut from
RankedOutputs ==
    {"companies", "experience", "employment", "schedule", "skills", "currencies"}

RankedOutput(which) ==
    CASE which = "companies" -> stats.companies.top_20
      [] which = "experience" -> stats.experience
      [] which = "employment" -> stats.employment
      [] which = "schedule" -> stats.schedule
      [] which = "skills" -> stats.skills.top_20
      [] which = "currencies" ->
            IF stats.salary.available THEN stats.salary.currencies ELSE <<>>

\* the labels counted over the listings vs, in the order of first counting
CountedIn(which, vs) ==
    CASE which = "skills" -> SkillsFrom(vs, 1, EmptyCounter)
      [] which = "currencies" -> SalaryLoop(vs, 1, SalaryAcc0).currency_stats
      [] OTHER -> CountLabels(which, vs, 1, EmptyCounter)

\* the first of the per-listing counters at that holds the label
FirstSeen(at, label) ==
    CHOOSE i \in 1..Len(at) :
        /\ CounterHas(at[i], label)
        /\ \A j \in 1..(i - 1) : ~CounterHas(at[j], label)

\* in a ranked output the counts are those of the whole input, they never
\* increase, labels of equal count stand in the order of the first listing
\* counted under them, and a label that is left out ranks behind the last
\* label kept
WellRanked(which) ==
    LET out == RankedOutput(which)
        all == CountedIn(which, vacancies)
        at == [i \in 1..Len(vacancies) |-> CountedIn(which, <<vacancies[i]>>)] \o <<>>
        seen == [i \in 1..Len(out) |-> FirstSeen(at, out[i].key)] \o <<>>
        last == Len(out)
    IN  /\ \A i \in 1..Len(out) : out[i].n = CounterGet(all, out[i].key)
        /\ \A i \in 1..Len(out) : \A j \in (i + 1)..Len(out) :
              /\ out[i].key # out[j].key
              /\ \/ out[i].n > out[j].n
                 \/ out[i].n = out[j].n /\ seen[i] <= seen[j]
        /\ \A k \in 1..Len(all) :
              \/ \E i \in 1..Len(out) : out[i].key = all[k].key
              \/ /\ last > 0
                 /\ \/ out[last].n > all[k].n
                    \/ /\ out[last].n = all[k].n
                       /\ seen[last] <= FirstSeen(at, all[k].key)

\* salary.currencies exists only when the salary statistics are available
Reported(which) == which = "currencies" => stats.salary.available

\* C9: every ranked output is ordered by non-increasing count, labels of
\* equal count in the order in which the input first shows them, and a label
\* cut off by the top N ranks behind every label that is kept
C9_StableRanking ==
    Returned => \A which \in RankedOutputs : Reported(which) => WellRanked(which)

\* more than 20 employers, the last of them seen twice and therefore first,
\* the rest of the top 20 in input order
C9_Witness ==
    /\ Returned
    /\ stats.companies.unique > TopCompanies
    /\ Len(stats.companies.top_20) = TopCompanies
    /\ stats.companies.top_20[1] = [key |-> PyStr(ToString(MaxDistinct)), n |-> 2]
    /\ stats.companies.top_20[2] = [key |-> PyStr("1"), n |-> 1]
    /\ Len(stats.salary.currencies) = TopCurrencies
    /\ Len(stats.skills.top_20) = TopSkills

SalaryCount(salary) == IF salary.available THEN salary.count ELSE 0

\* the count of a tier in a result of analyze_salary_by_experience, 0 for a
\* tier without an entry
TierCount(by_exp, tier) ==
    IF tier \in DOMAIN by_exp THEN by_exp[tier].count ELSE 0

\* C11: a listing analysed on its own adds at most one value to the overall
\* sample and one value to at most one tier, and the sample sizes of a list
\* are the sums of what its listings add one by one
C11_AtMostOneValue ==
    Returned =>
        LET one == [i \in 1..Len(vacancies) |->
                       [salary |-> analyze_salaries(<<vacancies[i]>>),
                        by_exp |-> analyze_salary_by_experience(<<vacancies[i]>>)]] \o <<>>
        IN  /\ \A i \in 1..Len(one) :
                  /\ SalaryCount(one[i].salary) <= 1
                  /\ Cardinality(DOMAIN one[i].by_exp) <= 1
                  /\ \A tier \in DOMAIN one[i].by_exp : one[i].by_exp[tier].count = 1
            /\ SalaryCount(stats.salary)
                   = SumSeq([i \in 1..Len(one) |-> SalaryCount(one[i].salary)])
            /\ SalaryCount(stats.salary) <= Len(vacancies)
            /\ \A tier \in TierSet :
                  TierCount(stats.salary_by_experience, tier)
                      = SumSeq([i \in 1..Len(one) |-> TierCount(one[i].by_exp, tier)])

\* two listings with both bounds, in two tiers: two values overall, one in
\* each of the two tiers
C11_Witness ==
    /\ Returned
    /\ Len(vacancies) = 2
    /\ \A i \in 1..2 : vacancies[i].salary = SalaryDict(PyInt(1000), PyInt(2000), PyStr("USD"))
    /\ SalaryCount(stats.salary) = 2
    /\ DOMAIN stats.salary_by_experience = {BezOpyta, Let6Plus}
    /\ stats.salary_by_experience[BezOpyta].count = 1

\* the overall sample of a list, every value doubled
SampleOf(vs) == SalaryLoop(vs, 1, SalaryAcc0).salaries

\* the k-th smallest value of a sample
KthSmallest(s, k) ==
    CHOOSE x \in {s[i] : i \in 1..Len(s)} :
        /\ Cardinality({i \in 1..Len(s) : s[i] < x}) < k
        /\ Cardinality({i \in 1..Len(s) : s[i] <= x}) >= k

\* q is the exact quotient num / den >= 0 cut to its integer part
IsTruncationOf(q, num, den) == den * q <= num /\ num < den * (q + 1)

\* st holds the exact statistics of the sample s2 (doubled), truncated
ExactStatistics(st, s2) ==
    LET n == Len(s2)
        half == n \div 2
    IN  /\ st.count = n
        /\ \E i \in 1..n :
              /\ \A j \in 1..n : s2[i] <= s2[j]
              /\ IsTruncationOf(st.min, s2[i], 2)
        /\ \E i \in 1..n :
              /\ \A j \in 1..n : s2[i] >= s2[j]
              /\ IsTruncationOf(st.max, s2[i], 2)
        /\ IsTruncationOf(st.avg, SumSeq(s2), 2 * n)
        /\ IF n % 2 = 1
           THEN IsTruncationOf(st.median, KthSmallest(s2, half + 1), 2)
           ELSE IsTruncationOf(st.median,
                               KthSmallest(s2, half) + KthSmallest(s2, half + 1), 4)

\* the sample holds exactly the values of the set xs, each once
IsSample(s2, xs) ==
    Len(s2) = Cardinality(xs) /\ {s2[i] : i \in 1..Len(s2)} = {2 * x : x \in xs}

\* C12: min, max, avg and median of a non-empty sample, overall and in the
\* tier of the listings, are the exact minimum, maximum, mean and median cut
\* to their integer part: {100000, 200000, 300000} has median 200000,
\* {100000, 200000} has median 150000, and the sample {1.5} has avg 1
C12_ExactTruncatedStatistics ==
    Returned /\ stats.salary.available =>
        LET s2 == SampleOf(vacancies)
        IN  /\ ExactStatistics(stats.salary, s2)
            /\ DOMAIN stats.salary_by_experience = {NeUkazano}
            /\ ExactStatistics(stats.salary_by_experience[NeUkazano], s2)
            /\ IsSample(s2, {100000, 200000, 300000}) =>
                  stats.salary.median = 200000 /\ stats.salary.avg = 200000
            /\ IsSample(s2, {100000, 200000}) => stats.salary.median = 150000
            /\ s2 = <<3>> =>
                  /\ stats.salary.avg = 1 /\ stats.salary.median = 1
                  /\ stats.salary.min = 1 /\ stats.salary.max = 1
            /\ s2 = <<3, 4>> => stats.salary.avg = 1 /\ stats.salary.median = 1

\* the sample {100000, 200000, 1.5}: its mean is 100000.5, its minimum 1.5
C12_Witness ==
    /\ Returned /\ stats.salary.available
    /\ Len(SampleOf(vacancies)) = 3
    /\ {SampleOf(vacancies)[i] : i \in 1..3} = {200000, 400000, 3}
    /\ stats.salary.avg = 100000
    /\ stats.salary.min = 1
    /\ stats.salary.median = 100000

\* the edges of the histogram as C13 lists them, in ascending order
StatedEdges == <<100000, 150000, 200000, 250000, 300000, 400000>>

\* the bucket C13 gives a value (doubled): the one of the first edge the
\* value is strictly less than, the top bucket when there is none
StatedBucket(s2) ==
    LET below == {k \in 1..Len(StatedEdges) : s2 < 2 * StatedEdges[k]}
    IN  IF below = {} THEN BucketLabels[Len(BucketLabels)]
        ELSE BucketLabels[CHOOSE k \in below : \A j \in below : k <= j]

\* the distribution of a sample whose one value lies in the bucket label
OnlyIn(label) ==
    [b \in {BucketLabels[k] : k \in 1..Len(BucketLabels)} |->
        IF b = label THEN 1 ELSE 0]

\* C13: every bucket of salary.distribution counts the sample values whose
\* first strictly greater edge is the edge of that bucket, so each value is
\* in exactly one bucket and a value on an edge is in the bucket above it:
\* 99999 in "do 100k", 100000 in "100-150k", 150000 in "150-200k", 400000
\* in "400k+"
C13_FirstEdgeStrictlyAbove ==
    Returned /\ stats.salary.available =>
        LET s2 == SampleOf(vacancies)
            dist == stats.salary.distribution
        IN  /\ \A k \in 1..Len(BucketLabels) :
                  dist[BucketLabels[k]]
                      = Cardinality({i \in 1..Len(s2) :
                                         StatedBucket(s2[i]) = BucketLabels[k]})
            /\ s2 = <<2 * 99999>> => dist = OnlyIn("do 100k")
            /\ s2 = <<2 * 99999 + 1>> => dist = OnlyIn("do 100k")
            /\ s2 = <<2 * 100000>> => dist = OnlyIn("100-150k")
            /\ s2 = <<2 * 149999>> => dist = OnlyIn("100-150k")
            /\ s2 = <<2 * 150000>> => dist = OnlyIn("150-200k")
            /\ s2 = <<2 * 200000>> => dist = OnlyIn("200-250k")
            /\ s2 = <<2 * 250000>> => dist = OnlyIn("250-300k")
            /\ s2 = <<2 * 300000>> => dist = OnlyIn("300-400k")
            /\ s2 = <<2 * 399999>> => dist = OnlyIn("300-400k")
            /\ s2 = <<2 * 400000>> => dist = OnlyIn("400k+")
            /\ s2 = <<2 * 500000>> => dist = OnlyIn("400k+")

\* the two values 400000 and 99999.5, in the top and in the bottom bucket
C13_Witness ==
    /\ Returned /\ stats.salary.available
    /\ SampleOf(vacancies) = <<2 * 400000, 2 * 99999 + 1>>
    /\ stats.salary.distribution["400k+"] = 1
    /\ stats.salary.distribution["do 100k"] = 1
    /\ stats.salary.distribution["300-400k"] = 0

\* the converted bounds of one kind ("from" or "to") of the listings that
\* have this bound, a bound being present when it is a number, 0 included
RECURSIVE StatedBounds(_, _, _)
StatedBounds(vs, i, bound) ==
    IF i > Len(vs) THEN <<>>
    ELSE
    LET salary == Get(vs[i], "salary")
        val == IF isinstance_dict(salary) THEN Get(salary.d, bound) ELSE None
        rate == IF isinstance_dict(salary)
                THEN StatedRate(GetOr(salary.d, "currency", PyStr("RUR")))
                ELSE 1
    IN  (IF val # None THEN <<rate * val.n>> ELSE <<>>)
            \o StatedBounds(vs, i + 1, bound)

StatedBoundMean(vs, bound) ==
    LET xs == StatedBounds(vs, 1, bound)
    IN  IF xs = <<>> THEN None
        ELSE PyInt(CHOOSE q \in 0..SumSeq(xs) : IsTruncationOf(q, SumSeq(xs), Len(xs)))

\* C14: salary.from_avg is the truncated mean of the converted from bounds
\* of the listings that have a from bound, taken over the whole input, and
\* None exactly when no listing has one; salary.to_avg likewise for to
C14_MeansOverPresentBounds ==
    Returned /\ stats.salary.available =>
        /\ stats.salary.from_avg = StatedBoundMean(vacancies, "from")
        /\ stats.salary.to_avg = StatedBoundMean(vacancies, "to")

\* the currency code of a listing with a salary object, an absent code read
\* as RUR
OriginalCurrency(v) == GetOr(Get(v, "salary").d, "currency", PyStr("RUR"))

\* the listings of the input that are in the salary sample and are priced
\* in the currency code
SampledIn(code) ==
    {i \in 1..Len(vacancies) :
        /\ SalaryCount(analyze_salaries(<<vacancies[i]>>)) = 1
        /\ OriginalCurrency(vacancies[i]) = code}

\* C15: salary.currencies has at most 5 entries; each maps an original
\* currency code to the number of sampled listings priced in it, a listing
\* with neither bound not being counted, so that with at most 5 codes the
\* entries sum to salary.count
C15_CurrenciesCountTheSample ==
    Returned /\ stats.salary.available =>
        LET currencies == stats.salary.currencies
        IN  /\ Len(currencies) <= 5
            /\ \A i \in 1..Len(currencies) :
                  currencies[i].n = Cardinality(SampledIn(currencies[i].key))
            /\ CounterTotal(currencies) = stats.salary.count

\* the field of the listing is a non-empty object or a non-empty string
NonEmptyObjectOrString(v, field) ==
    LET x == Get(v, field)
    IN  \/ x.t = "dict" /\ DOMAIN x.d # {}
        \/ x.t = "str" /\ x.s # ""

NumCarrying(field) ==
    Cardinality({i \in 1..Len(vacancies) : NonEmptyObjectOrString(vacancies[i], field)})

\* C16: the experience counts sum to the number of listings, the employment
\* counts to the number of listings whose employment is a non-empty object
\* or string, and the schedule counts likewise for schedule
C16_CountsSumToCarriers ==
    Returned =>
        /\ CounterTotal(stats.experience) = Len(vacancies)
        /\ CounterTotal(stats.experience) = stats.total
        /\ CounterTotal(stats.employment) = NumCarrying("employment")
        /\ CounterTotal(stats.schedule) = NumCarrying("schedule")

\* a listing whose fields are numbers and a listing with "full" in all
\* three fields: two under experience, one under employment and schedule
C16_Witness ==
    /\ Returned
    /\ vacancies = <<Listing(None, PyInt(3), PyInt(7), PyInt(1), PyInt(2), None),
                     SameInAllThree(PyStr("full"))>>
    /\ CounterTotal(stats.experience) = 2
    /\ CounterTotal(stats.employment) = 1
    /\ CounterTotal(stats.schedule) = 1

\* the distinct labels the listings of the input are counted under, each
\* listing looked at on its own
DistinctLabels(which) ==
    UNION {{CountedIn(which, <<vacancies[i]>>)[j].key :
                j \in 1..Len(CountedIn(which, <<vacancies[i]>>))} :
           i \in 1..Len(vacancies)}

\* how many listings are counted under the label
CountOfLabel(which, label) ==
    SumSeq([i \in 1..Len(vacancies) |->
               CounterGet(CountedIn(which, <<vacancies[i]>>), label)])

\* the list holds at most cap entries, and no label it leaves out is
\* counted more often than a label it holds
CappedAt(which, cap) ==
    LET out == RankedOutput(which)
        kept == {out[i].key : i \in 1..Len(out)}
    IN  /\ Len(out) <= cap
        /\ Cardinality(kept) = Len(out)
        /\ kept \subseteq DistinctLabels(which)
        /\ \A l \in DistinctLabels(which) \ kept : \A k \in kept :
              CountOfLabel(which, l) <= CountOfLabel(which, k)

\* the list holds every distinct label, once
Uncapped(which) ==
    LET out == RankedOutput(which)
    IN  /\ Len(out) = Cardinality(DistinctLabels(which))
        /\ {out[i].key : i \in 1..Len(out)} = DistinctLabels(which)

\* C17: companies.top_20 and skills.top_20 hold at most 20 entries and
\* leave out no label counted more often than one they hold;
\* companies.unique and skills.total_found are the numbers of all distinct
\* labels of the input; experience, employment and schedule hold every
\* distinct label
C17_CappedListsFullTotals ==
    Returned =>
        /\ CappedAt("companies", 20)
        /\ CappedAt("skills", 20)
        /\ stats.companies.unique = Cardinality(DistinctLabels("companies"))
        /\ stats.skills.total_found = Cardinality(DistinctLabels("skills"))
        /\ Uncapped("experience")
        /\ Uncapped("employment")
        /\ Uncapped("schedule")

\* 22 distinct employers, skills and experience codes in one input
C17_Witness ==
    /\ Returned
    /\ Len(stats.companies.top_20) = 20
    /\ stats.companies.unique = 22
    /\ Len(stats.skills.top_20) = 20
    /\ stats.skills.total_found = 22
    /\ Len(stats.experience) = 22
    /\ Len(stats.employment) = 22
    /\ Len(stats.schedule) = 22

\* the listing has a representative value: its salary is an object with a
\* bound the code can use
HasValue(v) ==
    LET salary == Get(v, "salary")
    IN  /\ isinstance_dict(salary)
        /\ \/ Truthy(Get(salary.d, "from"))
           \/ Truthy(Get(salary.d, "to"))

\* the listings of a tier that have a representative value
ValuedIn(tier) ==
    {i \in 1..Len(vacancies) :
        /\ HasValue(vacancies[i])
        /\ exp_map_get(ExperienceCode(vacancies[i]), NeUkazano) = tier}

\* C18: salary_by_experience has an entry for a tier exactly when a listing
\* of the tier has a representative value, the count of an entry is the
\* size of the tier's sample and at least 1, and when no listing has a
\* representative value analyze_salaries returns the no-data result, which
\* holds no statistics
C18_NoStatisticsOfEmptySample ==
    Returned =>
        /\ DOMAIN stats.salary_by_experience = {tier \in TierSet : ValuedIn(tier) # {}}
        /\ \A tier \in DOMAIN stats.salary_by_experience :
              /\ stats.salary_by_experience[tier].count = Cardinality(ValuedIn(tier))
              /\ stats.salary_by_experience[tier].count >= 1
        /\ IF \E i \in 1..Len(vacancies) : HasValue(vacancies[i])
           THEN stats.salary.available /\ stats.salary.count >= 1
           ELSE /\ stats.salary.available = FALSE
                /\ DOMAIN stats.salary = {"available", "message"}
                /\ stats.salary_by_experience = <<>>

\* a listing with a value in "Bez opyta" and a listing without a bound in
\* "1-3 goda": one entry only
C18_Witness ==
    /\ Returned
    /\ Len(vacancies) = 2
    /\ ValuedIn(BezOpyta) = {1}
    /\ ExperienceCode(vacancies[2]) = PyStr("between1And3")
    /\ vacancies[2].salary = SalaryDict(None, None, PyStr("RUR"))
    /\ DOMAIN stats.salary_by_experience = {BezOpyta}
    /\ stats.salary.count = 1

\* the fixed lookup table as C19 names it: the codes it holds and the label
\* of each
StatedTable ==
    [full |-> "Polnaya zanyatost", part |-> "Chastichnaya zanyatost",
     project |-> "Proektnaya rabota", volunteer |-> "Volonterstvo",
     probation |-> "Stazhirovka"]

InStatedTable(code) == code.t = "str" /\ code.s \in DOMAIN StatedTable

\* the label of a present field value x as C19 resolves it, through the
\* table when table is TRUE and without any table otherwise
StatedLabel(x, table) ==
    IF x.t = "dict"
    THEN IF table /\ InStatedTable(Get(x.d, "id"))
         THEN PyStr(StatedTable[Get(x.d, "id").s])
         ELSE GetOr(x.d, "name", NeUkazano)
    ELSE IF table /\ InStatedTable(x) THEN PyStr(StatedTable[x.s])
    ELSE x

FieldOf(which) == IF which = "companies" THEN "employer" ELSE which

\* the listings counted under the label when present fields are resolved
\* by StatedLabel; analyze_companies also counts the listings without an
\* employer, under "Ne ukazano"
StatedCount(which, label, table) ==
    Cardinality({i \in 1..Len(vacancies) :
        IF NonEmptyObjectOrString(vacancies[i], FieldOf(which))
        THEN StatedLabel(Get(vacancies[i], FieldOf(which)), table) = label
        ELSE which = "companies" /\ label = NeUkazano})

\* the result counts every label as StatedLabel resolves it
ResolvedBy(which, table) ==
    LET out == RankedOutput(which)
    IN  /\ \A i \in 1..Len(out) : out[i].n = StatedCount(which, out[i].key, table)
        /\ CounterTotal(out)
              = Cardinality({i \in 1..Len(vacancies) :
                    \/ which = "companies"
                    \/ NonEmptyObjectOrString(vacancies[i], FieldOf(which))})

\* C19 as stated: the label of a present employer, employment or schedule
\* field is resolved the same way for all three, an object by its id mapped
\* through the lookup table and otherwise by its name, a string mapped
\* through the same table and otherwise by itself
C19_SameResolutionForAllThree ==
    Returned =>
        /\ ResolvedBy("employment", TRUE)
        /\ ResolvedBy("schedule", TRUE)
        /\ ResolvedBy("companies", TRUE)

\* C19 as amended: only employment is resolved through the lookup table;
\* an employer or schedule object counts under its name whatever its id,
\* and an employer or schedule string under itself
C19_OnlyEmploymentUsesTable ==
    Returned =>
        /\ ResolvedBy("employment", TRUE)
        /\ ResolvedBy("schedule", FALSE)
        /\ ResolvedBy("companies", FALSE)

\* the object {id: "full", name: "Full time"} in all three fields: under
\* the table's label as employment, under its name as schedule and employer
C19_Witness ==
    /\ Returned
    /\ vacancies = <<SameInAllThree(PyDict([id |-> PyStr("full"), name |-> PyStr("Full time")]))>>
    /\ stats.employment = <<[key |-> PyStr("Polnaya zanyatost"), n |-> 1]>>
    /\ stats.schedule = <<[key |-> PyStr("Full time"), n |-> 1]>>
    /\ stats.companies.top_20 = <<[key |-> PyStr("Full time"), n |-> 1]>>

\* C20: a page request that fails (timeout, rate limit, server error,
\* connection error) is never turned into a normally returned list:
\* whenever get_all_vacancies has returned its list, no request of the call
\* has failed
C20_FailuresReachTheCaller ==
    pc = "returned" => caught = "none"

\* the items of pages 0 .. k-1 of the upstream search, in page order
StatedPagesUpTo(k) == [i \in 1..k |-> ItemOf(i - 1)] \o <<>>

\* the number of pages a response reports, 1 when it reports none
StatedPages(body) == IF "pages" \in DOMAIN body THEN body.pages ELSE 1

StatedItems(body) == IF "items" \in DOMAIN body THEN body.items ELSE <<>>

\* the pages requested so far are consecutive and increasing, each below
\* max_pages and none twice; page 0 is not requested when the cache has it
RequestsInOrder ==
    /\ Len(requests) <= max_pages
    /\ \A i \in 1..Len(requests) :
          /\ requests[i] < max_pages
          /\ requests[i] = requests[1] + (i - 1)
    /\ requests # <<>> => requests[1] \in {0, 1}

\* while the loop runs, every page before the current one had items, was
\* not the last one reported, and its items are in the list in page order
LoopHasNotStoppedEarly ==
    pc = "loop" =>
        /\ page <= max_pages
        /\ all_vacancies = StatedPagesUpTo(page)
        /\ caught = "none"
        /\ page > 0 => /\ StatedItems(result) # <<>>
                       /\ page - 1 < StatedPages(result) - 1

\* the list that is returned holds the pages before the one the loop stopped
\* at, and the loop stopped because that page failed, was empty, was the
\* last one reported, or because max_pages pages had been read
ReturnedForAReason ==
    pc = "returned" =>
        \/ /\ caught # "none"
           /\ page < max_pages
           /\ all_vacancies = StatedPagesUpTo(page)
        \/ /\ caught = "none"
           /\ page = max_pages
           /\ all_vacancies = StatedPagesUpTo(max_pages)
        \/ /\ caught = "none"
           /\ page < max_pages
           /\ StatedItems(result) = <<>>
           /\ all_vacancies = StatedPagesUpTo(page)
        \/ /\ caught = "none"
           /\ page < max_pages
           /\ StatedItems(result) # <<>>
           /\ page >= StatedPages(result) - 1
           /\ all_vacancies = StatedPagesUpTo(page + 1)

\* C21: get_all_vacancies always terminates; it requests pages 0, 1, 2, ...
\* in increasing order, each at most once and at most max_pages in all,
\* stops at the first page that is empty, is the last page reported or
\* fails, and returns the items of the fetched pages in page order
C21_TerminatesWithPagesInOrder ==
    /\ [](RequestsInOrder /\ LoopHasNotStoppedEarly /\ ReturnedForAReason)
    /\ (pc = "loop" ~> pc = "returned")

\* C21 witness: a call that has read max_pages pages, one request each, and
\* has returned them all
C21_Witness ==
    /\ pc = "returned"
    /\ page = max_pages
    /\ Len(requests) = max_pages
    /\ Len(all_vacancies) = max_pages
    /\ max_pages > 1

\* the reported minima and maxima of the tiers that have an entry
TierMinima(by_exp) == {by_exp[tier].min : tier \in DOMAIN by_exp}
TierMaxima(by_exp) == {by_exp[tier].max : tier \in DOMAIN by_exp}

\* C22: the overall and the per-tier salary computations select the same
\* listings: the counts of the tiers sum to salary.count (to 0 when salary is
\* not available), the smallest tier minimum is salary.min and the largest
\* tier maximum is salary.max
C22_TiersPartitionTheSample ==
    Returned =>
        LET salary == stats.salary
            by_exp == stats.salary_by_experience
        IN  /\ SumSeq([k \in 1..Len(TierLabels) |-> TierCount(by_exp, TierLabels[k])])
                   = SalaryCount(salary)
            /\ DOMAIN by_exp \subseteq TierSet
            /\ ~salary.available => DOMAIN by_exp = {}
            /\ salary.available =>
                   /\ DOMAIN by_exp # {}
                   /\ \E lo \in TierMinima(by_exp) :
                          /\ lo = salary.min
                          /\ \A m \in TierMinima(by_exp) : lo <= m
                   /\ \E hi \in TierMaxima(by_exp) :
                          /\ hi = salary.max
                          /\ \A m \in TierMaxima(by_exp) : hi >= m

\* C22 witness: two salaries in two tiers, one of them the unspecified tier,
\* with different values
C22_Witness ==
    /\ Returned
    /\ stats.salary.available
    /\ stats.salary.count = 2
    /\ stats.salary.min < stats.salary.max
    /\ Cardinality(DOMAIN stats.salary_by_experience) = 2
    /\ NeUkazano \in DOMAIN stats.salary_by_experience

\* the step in which search_vacancies has fetched page 0 over HTTP and got a
\* 200: the request is sent and nothing is caught
FetchesFirstPage ==
    /\ pc = "loop"
    /\ page = 0
    /\ requests = <<>>
    /\ requests' = <<0>>
    /\ caught' = "none"

\* a call of search_vacancies for page 0 with the arguments of the running
\* call, made at time later on the cache c, whatever its HTTP request would
\* end in: it sends no request and returns data
ServedFromCache(c, later, data) ==
    \A outcome \in OutcomesOf(0) :
        LET again == search_vacancies(query, area, 0, outcome, c, later)
        IN  /\ ~again.requested
            /\ again.result = data

\* C23: after search_vacancies has fetched page 0 successfully, a call with
\* the same text and area made less than 30 minutes later returns the stored
\* response without an HTTP request, for a city name as for a numeric id or
\* None
C23_LaterCallServedFromCache ==
    [][FetchesFirstPage =>
          \A later \in now..(now + cache_ttl - 1) :
              ServedFromCache(cache', later, result')]_vars

\* every entry holds a non-empty list, the statistics of that very list and
\* its length
EntriesAreWhole ==
    \A u \in DOMAIN results_cache :
        LET entry == results_cache[u]
        IN  /\ u \in Senders
            /\ entry.vacancies # <<>>
            /\ entry.stats = analyze_vacancies(entry.vacancies)
            /\ "total" \in DOMAIN entry.stats
            /\ entry.vacancies_count = Len(entry.vacancies)

\* a step that changes results_cache ends a process_city of some user, sets
\* the entry of that user to the query and the area of that handler, and
\* leaves the entries of the other users alone
EntryWrittenForItsUser ==
    results_cache' # results_cache =>
        \E t \in DOMAIN tasks \ DOMAIN tasks' :
            /\ tasks[t].handler = "process_city"
            /\ tasks[t].user \in DOMAIN results_cache'
            /\ results_cache'[tasks[t].user].query = tasks[t].query
            /\ results_cache'[tasks[t].user].area = tasks[t].area_name
            /\ DOMAIN results_cache' = DOMAIN results_cache \cup {tasks[t].user}
            /\ \A w \in DOMAIN results_cache \ {tasks[t].user} :
                   results_cache'[w] = results_cache[w]

\* btn_pdf binds the entry of its user when it starts and makes the document
\* of what it has bound; a report of btn_stats is the entry of its user; "no
\* data" is answered to a user without an entry, and only to such a user
HandlersReadTheEntry ==
    /\ \A t \in DOMAIN tasks' \ DOMAIN tasks :
           tasks'[t].handler = "btn_pdf" =>
               /\ tasks'[t].user \in DOMAIN results_cache
               /\ tasks'[t].cache = results_cache[tasks'[t].user]
    /\ sent'.kind = "document" =>
           \E t \in DOMAIN tasks \ DOMAIN tasks' :
               /\ tasks[t].handler = "btn_pdf"
               /\ sent'.to = tasks[t].user
               /\ sent'.query = tasks[t].cache.query
               /\ sent'.area = tasks[t].cache.area
               /\ sent'.stats = tasks[t].cache.stats
               /\ sent'.vacancies = tasks[t].cache.vacancies
    /\ (calls' # calls /\ sent'.kind = "report") =>
           /\ sent'.to \in DOMAIN results_cache
           /\ sent'.query = results_cache[sent'.to].query
           /\ sent'.area = results_cache[sent'.to].area
           /\ sent'.stats = results_cache[sent'.to].stats
    /\ sent'.kind = "no data" => sent'.to \notin DOMAIN results_cache
    /\ (calls' # calls /\ sent'.to \notin DOMAIN results_cache) =>
           sent'.kind \in {"no data", "cancelled", "status"}

\* a handler that answers "cancelled", "not found" or with an error has left
\* results_cache as it was
UnsuccessfulLeavesEntry ==
    sent'.kind \in {"cancelled", "not found", "error"} =>
        results_cache' = results_cache

\* C24: under any interleaving of the handlers of several users,
\* results_cache[u] is absent or holds the query, area, statistics and
\* listings of one successfully completed analysis requested by u; the PDF
\* and statistics handlers of u read only that entry and answer "no data"
\* when it is absent; a cancelled, empty or failed analysis leaves the entry
\* unchanged
C24_EntryOfOneAnalysisPerUser ==
    /\ []EntriesAreWhole
    /\ [][/\ EntryWrittenForItsUser
          /\ HandlersReadTheEntry
          /\ UnsuccessfulLeavesEntry]_vars

====
